---- MODULE Spec2Model ----
(***************************************************************************)
(* AI Handwritten Reader: the two API route handlers (pages/api/extract.js *)
(* and pages/api/summarize.js) and the client page (app/page.tsx).         *)
(*                                                                         *)
(* Three specifications share the variables below:                         *)
(*   SpecServer  the extraction and text-transform request handlers,       *)
(*               one step per await of the handler;                        *)
(*   SpecClient  the React state of HomePage and its in-flight fetches;    *)
(*   SpecPdf     handleDownloadPdf's pagination.                           *)
(***************************************************************************)
EXTENDS Integers, Sequences, FiniteSets, TLC

VARIABLES
    env,        \* process.env: GEMINI_API_KEY and NEXT_PUBLIC_GEMINI_API_KEY
    disk,       \* temporary files that exist in the upload directory
    ex,         \* extraction requests: handler position, locals, response
    sm,         \* text-transform requests: handler position, locals, response
    selectedFile,       \* HomePage state, app/page.tsx lines 19-26 (the language
                        \* select of line 27 only fills a form field)
    extractedText,
    isLoading,
    error,
    processedText,
    isProcessingText,
    processingMode,
    extractFetches,     \* fetches of /api/extract that have not settled
    transformFetches,   \* fetches of /api/summarize that have not settled
    processedSuperseded, \* history: an extraction succeeded after the request
                        \* that produced processedText was sent
    lastExtraction,     \* history: how the extraction that completed last went
    exportText,         \* the transcription handed to the document export: its
                        \* blank-line-separated segments, each by the number
                        \* of lines it wraps to (0: nothing but white space)
    pdfDoc              \* the document handleDownloadPdf produced

serverVars == <<env, disk, ex, sm>>

clientVars == <<selectedFile, extractedText, isLoading, error, processedText,
                isProcessingText, processingMode, extractFetches,
                transformFetches, processedSuperseded, lastExtraction>>

pdfVars == <<exportText, pdfDoc>>

vars == <<env, disk, ex, sm, selectedFile, extractedText, isLoading, error,
          processedText, isProcessingText, processingMode,
          extractFetches, transformFetches, processedSuperseded, lastExtraction,
          exportText, pdfDoc>>

(***************************************************************************)
(* Bounds                                                                  *)
(***************************************************************************)
MaxTextLen == 2

\* fetches of one kind that may be outstanding before a click is ignored
MaxInFlight == 2

\* the most lines a segment of the exported text wraps to
MaxLines == 35

\* the most blank-line-separated segments of the exported text
MaxSegments == 2

(***************************************************************************)
(* JavaScript values                                                       *)
(***************************************************************************)
Undefined == [t |-> "undefined"]
Str(s) == [t |-> "string", v |-> s]
Num(n) == [t |-> "number", v |-> n]
Arr(a) == [t |-> "array", v |-> a]

\* a ?? b
Coalesce(a, b) == IF a = Undefined THEN b ELSE a

\* !v for undefined and for strings held as TLA+ strings
Falsy(v) == v = Undefined \/ (v.t = "string" /\ v.v = "")

Chars == {"a", " "}

Texts == UNION {[1..n -> Chars] : n \in 0..MaxTextLen}

IsSpace(c) == c = " "

\* !text for a string held as a sequence of characters
EmptyText(text) == Len(text) = 0

RECURSIVE TrimStart(_)
TrimStart(s) ==
    IF s = <<>> THEN <<>>
    ELSE IF IsSpace(Head(s)) THEN TrimStart(Tail(s)) ELSE s

RECURSIVE TrimEnd(_)
TrimEnd(s) ==
    IF s = <<>> THEN <<>>
    ELSE IF IsSpace(s[Len(s)]) THEN TrimEnd(SubSeq(s, 1, Len(s) - 1)) ELSE s

\* String.prototype.trim on a sequence of characters
Trim(s) == TrimEnd(TrimStart(s))

(***************************************************************************)
(* Responses                                                               *)
(***************************************************************************)
JsonError(status, msg) == [status |-> status, allow |-> "", body |-> [error |-> msg]]

JsonText(text) == [status |-> 200, allow |-> "", body |-> [text |-> text]]

\* the 405 answer without its Allow header
MethodNotAllowedNoAllow == [status |-> 405, allow |-> "", body |-> [error |-> "Method Not Allowed"]]

MethodNotAllowed == [status |-> 405, allow |-> "POST", body |-> [error |-> "Method Not Allowed"]]

Methods == {"POST", "GET", "PUT"}

\* error.message ?? "Unexpected error"
ErrorMessage(err) == Coalesce(err.message, Str("Unexpected error")).v

Error(msg) == [message |-> Str(msg)]

(***************************************************************************)
(* Environment and credential                                              *)
(***************************************************************************)
Envs == [GEMINI_API_KEY : {Undefined, Str(""), Str("key-1")},
         NEXT_PUBLIC_GEMINI_API_KEY : {Undefined, Str(""), Str("key-2")}]

\* extract.js
getGeminiApiKey(e) ==
    Coalesce(Coalesce(e.GEMINI_API_KEY, e.NEXT_PUBLIC_GEMINI_API_KEY), Str(""))

\* summarize.js
getGeminiApiKeySummarize(e) ==
    Coalesce(Coalesce(e.GEMINI_API_KEY, e.NEXT_PUBLIC_GEMINI_API_KEY), Str(""))

MissingKeyMessage == "Missing GEMINI_API_KEY environment variable"

NoResponseMessage == "No response received from Gemini"

EmptyResponseMessage == "Gemini returned an empty response"

\* what model.generateContent can do: reject, resolve without a response,
\* resolve with a response whose text() is some string
TransportErrors == {"fetch failed"}

ModelOutcomes ==
    {[kind |-> "reject", message |-> m] : m \in TransportErrors}
    \cup {[kind |-> "noresponse"]}
    \cup {[kind |-> "text", text |-> t] : t \in Texts}

(***************************************************************************)
(* Extraction endpoint: pure parts                                         *)
(***************************************************************************)
FORM_FILE_FIELDS == <<"file", "image", "document">>

\* the files object formidable resolves with: entries in insertion order,
\* each a field name and the list of temporary files stored for it
Uploads ==
    { <<>>,
      <<[field |-> "file", items |-> <<"t1">>]>>,
      <<[field |-> "document", items |-> <<"t1">>]>>,
      <<[field |-> "photo", items |-> <<"t1">>]>>,
      <<[field |-> "file", items |-> <<"t1", "t2">>]>>,
      <<[field |-> "photo", items |-> <<"t1">>], [field |-> "image", items |-> <<"t2">>]>> }

\* temporary paths named after the uploaded file alone, so that two requests
\* can be given the same path
PathOfShared(r, f) == <<"upload", f>>

\* the temporary path of file f of request r
PathOf(r, f) == <<r, f>>

\* every temporary file the parse of request r stored for the upload u
WrittenPaths(r, u) ==
    {PathOf(r, u[i].items[j]) : <<i, j>> \in
        {p \in (1..Len(u)) \X (1..2) : p[2] <= Len(u[p[1]].items)}}

\* files[field]
FilesGet(files, field) ==
    IF \E i \in 1..Len(files) : files[i].field = field
    THEN Arr((CHOOSE e \in {files[i] : i \in 1..Len(files)} : e.field = field).items)
    ELSE Undefined

normalizeFormFile(fileField) ==
    IF fileField = Undefined THEN Undefined
    ELSE IF fileField.t = "array"
         THEN (IF Len(fileField.v) > 0 THEN Str(fileField.v[1]) ELSE Undefined)
         ELSE fileField

\* lines 111-116: the first of FORM_FILE_FIELDS present in files
RECURSIVE FirstKnownField(_, _)
FirstKnownField(files, i) ==
    IF i > Len(FORM_FILE_FIELDS) THEN Undefined
    ELSE IF FilesGet(files, FORM_FILE_FIELDS[i]) # Undefined
         THEN normalizeFormFile(FilesGet(files, FORM_FILE_FIELDS[i]))
         ELSE FirstKnownField(files, i + 1)

\* lines 111-124: uploadedFile after the field search and the fallback
SelectUploadedFile(files) ==
    LET known == FirstKnownField(files, 1)
    IN  IF known # Undefined THEN known
        ELSE IF Len(files) > 0 THEN normalizeFormFile(Arr(files[1].items))
        ELSE Undefined

LANGUAGE_PROMPTS ==
    [auto |-> "Extract the handwritten text from this document. Detect the language automatically and respond only with the transcribed text.",
     en |-> "Extract and transcribe the handwritten text in English. Respond with the best English transcription.",
     hi |-> "Extract and transcribe the handwritten text in Hindi using Devanagari script.",
     mr |-> "Extract and transcribe the handwritten text in Marathi using Devanagari script.",
     es |-> "Extract and transcribe the handwritten text in Spanish. Respond in Spanish."]

\* property names every object literal inherits from Object.prototype
ObjectPrototypeKeys ==
    {"constructor", "__proto__", "toString", "valueOf", "hasOwnProperty"}

\* LANGUAGE_PROMPTS[key]: own entry, inherited member, or undefined
PromptLookup(key) ==
    IF key \in DOMAIN LANGUAGE_PROMPTS THEN Str(LANGUAGE_PROMPTS[key])
    ELSE IF key \in ObjectPrototypeKeys THEN [t |-> "inherited", v |-> key]
    ELSE Undefined

LanguageStrings ==
    {"auto", "en", "hi", "mr", "es", "EN", "Hi", "", "fr", "constructor", "toString"}

\* String.prototype.toLowerCase on LanguageStrings
toLowerCase(s) ==
    CASE s = "EN" -> "en"
      [] s = "Hi" -> "hi"
      [] s = "toString" -> "tostring"
      [] OTHER -> s

\* the values fields.language can have
LanguageFields ==
    {Undefined} \cup {Str(s) : s \in LanguageStrings}
    \cup {Arr(<<>>), Arr(<<Str("mr"), Str("en")>>)}

\* lines 133-135
ResolveLanguage(languageField) ==
    LET languageValue ==
            IF languageField # Undefined /\ languageField.t = "array"
            THEN (IF Len(languageField.v) > 0 THEN languageField.v[1] ELSE Undefined)
            ELSE languageField
    IN  IF languageValue # Undefined /\ languageValue.t = "string"
        THEN toLowerCase(languageValue.v)
        ELSE "auto"

\* line 67
ResolvePrompt(lang) == Coalesce(PromptLookup(lang), Str(LANGUAGE_PROMPTS.auto))

ExtractIds == {"e1", "e2"}

ParseErrors == {"maxTotalFileSize exceeded", "Request aborted"}

ReadErrors == {"EIO: i/o error, read"}

SharpErrors == {"Input buffer contains unsupported image format"}

NewExtract ==
    [pc |-> "idle", method |-> "", files |-> <<>>, uploadedFile |-> Undefined,
     languageField |-> Undefined, language |-> Undefined, prompt |-> Undefined,
     effects |-> {}, responses |-> <<>>, failure |-> Undefined]

Respond(rec, response) == [rec EXCEPT !.responses = Append(@, response)]

Touch(rec, effect) == [rec EXCEPT !.effects = @ \cup {effect}]

\* lines 142-151, up to the await of fs.unlink
ExtractFinally(rec) ==
    IF rec.uploadedFile # Undefined
    THEN [rec EXCEPT !.pc = "cleanup"]
    ELSE [rec EXCEPT !.pc = "done"]

\* a catch block that logs the failure and sends nothing
ExtractCatchSilent(rec, err) ==
    ExtractFinally([rec EXCEPT !.failure = err])

\* lines 139-141, then the finally block
ExtractCatch(rec, err) ==
    ExtractFinally(Respond([rec EXCEPT !.failure = err], JsonError(500, ErrorMessage(err))))

\* lines 99-109: the method check, then parseMultipartRequest is started
ExtractReceive(r) ==
    /\ ex[r].pc = "idle"
    /\ \E m \in Methods :
         ex' = [ex EXCEPT ![r] =
                  IF m # "POST"
                  THEN Respond([@ EXCEPT !.method = m, !.pc = "done"], MethodNotAllowed)
                  ELSE Touch([@ EXCEPT !.method = m, !.pc = "parsing"], "parse")]
    /\ UNCHANGED <<env, disk, sm, clientVars, pdfVars>>

\* lines 22-38 and 109-131: form.parse calls back; on success the uploaded
\* file is chosen and fs.readFile is started.  A parse that fails leaves no
\* temporary file: formidable destroys the files it opened.
ExtractParsed(r) ==
    /\ ex[r].pc = "parsing"
    /\ \/ \E m \in ParseErrors :
            /\ ex' = [ex EXCEPT ![r] = ExtractCatch(@, Error(m))]
            /\ UNCHANGED disk
       \/ \E u \in Uploads :
            LET uploadedFile == SelectUploadedFile(u)
                rec == [ex[r] EXCEPT !.files = u, !.uploadedFile = uploadedFile]
            IN  /\ disk' = disk \cup WrittenPaths(r, u)
                /\ ex' = [ex EXCEPT ![r] =
                      IF uploadedFile = Undefined
                      THEN ExtractFinally(Respond(rec, JsonError(400, "No image file uploaded")))
                      ELSE Touch([rec EXCEPT !.pc = "reading"], "read")]
    /\ UNCHANGED <<env, sm, clientVars, pdfVars>>

\* line 131-132: fs.readFile settles; cleanImage is started on the buffer
ExtractRead(r) ==
    /\ ex[r].pc = "reading"
    /\ \/ /\ PathOf(r, ex[r].uploadedFile.v) \in disk
          /\ ex' = [ex EXCEPT ![r].pc = "cleaning"]
       \/ \E m \in ReadErrors :
            ex' = [ex EXCEPT ![r] = ExtractCatch(@, Error(m))]
       \/ /\ PathOf(r, ex[r].uploadedFile.v) \notin disk
          /\ ex' = [ex EXCEPT ![r] = ExtractCatch(@, Error("ENOENT: no such file or directory"))]
    /\ UNCHANGED <<env, disk, sm, clientVars, pdfVars>>

\* lines 56-69, up to the await of model.generateContent
extractTextFromImage(rec, lang, e) ==
    LET apiKey == getGeminiApiKey(e)
    IN  IF Falsy(apiKey)
        THEN ExtractCatch([rec EXCEPT !.language = Str(lang)], Error(MissingKeyMessage))
        ELSE Touch([rec EXCEPT !.language = Str(lang),
                                !.prompt = ResolvePrompt(lang),
                                !.pc = "calling"], "model")

\* lines 132-136: cleanImage settles; the language is resolved and
\* extractTextFromImage runs up to its call of the model
ExtractCleaned(r) ==
    /\ ex[r].pc = "cleaning"
    /\ \/ \E m \in SharpErrors :
            ex' = [ex EXCEPT ![r] = ExtractCatch(@, Error(m))]
       \/ \E languageField \in LanguageFields :
            ex' = [ex EXCEPT ![r] =
                     extractTextFromImage([@ EXCEPT !.languageField = languageField],
                                          ResolveLanguage(languageField), env)]
    /\ UNCHANGED <<env, disk, sm, clientVars, pdfVars>>

\* lines 69-96 and 136-141: generateContent settles
ExtractModelReturned(r) ==
    /\ ex[r].pc = "calling"
    /\ \E out \in ModelOutcomes :
         ex' = [ex EXCEPT ![r] =
                  CASE out.kind = "reject" -> ExtractCatch(@, Error(out.message))
                    [] out.kind = "noresponse" -> ExtractCatch(@, Error(NoResponseMessage))
                    [] out.kind = "text" ->
                         IF EmptyText(out.text)
                         THEN ExtractCatch(@, Error(EmptyResponseMessage))
                         ELSE ExtractFinally(Respond(@, JsonText(Trim(out.text))))]
    /\ UNCHANGED <<env, disk, sm, clientVars, pdfVars>>

\* lines 144-150: fs.unlink settles; a failure is logged and swallowed
ExtractUnlink(r) ==
    /\ ex[r].pc = "cleanup"
    /\ \/ /\ disk' = disk \ {PathOf(r, ex[r].uploadedFile.v)}
          /\ ex' = [ex EXCEPT ![r] = Touch([@ EXCEPT !.pc = "done"], "unlink")]
       \/ /\ UNCHANGED disk
          /\ ex' = [ex EXCEPT ![r] = Touch([@ EXCEPT !.pc = "done"], "unlinkFailed")]
    /\ UNCHANGED <<env, sm, clientVars, pdfVars>>

(***************************************************************************)
(* Text-transform endpoint                                                 *)
(***************************************************************************)
SummarizeIds == {"s1"}

\* a mode table that lets a third mode through
ALLOWED_MODES_Translate == {Str("summarize"), Str("rewrite"), Str("translate")}

ALLOWED_MODES == {Str("summarize"), Str("rewrite")}

\* the values req.body can have after the framework's body parser
TextValues == {Undefined, Num(42)} \cup {Str(t) : t \in Texts}

ModeValues ==
    {Undefined, Str("summarize"), Str("rewrite"), Str("Summarize"), Str("translate"), Str("")}

Bodies ==
    {Undefined} \cup [text : TextValues, mode : ModeValues]

SummarizePrompt == "Provide a concise summary of the following handwritten transcription. Return clear paragraphs."

RewritePrompt == "Rewrite the following handwritten transcription into polished, easy-to-read prose while preserving meaning."

NewSummarize ==
    [pc |-> "idle", method |-> "", text |-> Undefined, mode |-> Undefined,
     prompt |-> Undefined, effects |-> {}, responses |-> <<>>, failure |-> Undefined]

\* lines 71-74
SummarizeCatch(rec, err) ==
    Respond([rec EXCEPT !.failure = err, !.pc = "done"], JsonError(500, ErrorMessage(err)))

\* lines 9-23, up to the await of model.generateContent
processTextWithGemini(rec, text, mode, e) ==
    LET apiKey == getGeminiApiKeySummarize(e)
        systemPrompt == IF mode = Str("summarize") THEN SummarizePrompt ELSE RewritePrompt
    IN  IF Falsy(apiKey)
        THEN SummarizeCatch(rec, Error(MissingKeyMessage))
        ELSE Touch([rec EXCEPT !.prompt = [system |-> systemPrompt, text |-> text.v],
                                !.pc = "calling"], "model")

\* lines 59-67: the message of the 400 answer for a body, or undefined when
\* the body passes
SummarizeRejection(body) ==
    IF body.text.t # "string" \/ EmptyText(Trim(body.text.v))
    THEN Str("Request must include non-empty 'text'")
    ELSE IF body.mode \notin ALLOWED_MODES
    THEN Str("Mode must be either 'summarize' or 'rewrite'")
    ELSE Undefined

\* lines 49-69: the method check, the validation of text and mode, and
\* processTextWithGemini up to its call of the model
SummarizeReceive(s) ==
    /\ sm[s].pc = "idle"
    /\ \E m \in Methods, reqBody \in Bodies :
         LET body == Coalesce(reqBody, [text |-> Undefined, mode |-> Undefined])
             rec == Touch([sm[s] EXCEPT !.method = m, !.text = body.text, !.mode = body.mode],
                          "body")
         IN  sm' = [sm EXCEPT ![s] =
                  IF m # "POST"
                  THEN Respond([@ EXCEPT !.method = m, !.pc = "done"], MethodNotAllowed)
                  ELSE IF SummarizeRejection(body) # Undefined
                  THEN Respond([rec EXCEPT !.pc = "done"],
                               JsonError(400, SummarizeRejection(body).v))
                  ELSE processTextWithGemini(rec, body.text, body.mode, env)]
    /\ UNCHANGED <<env, disk, ex, clientVars, pdfVars>>

\* lines 23-46 and 69-74: generateContent settles
SummarizeModelReturned(s) ==
    /\ sm[s].pc = "calling"
    /\ \E out \in ModelOutcomes :
         sm' = [sm EXCEPT ![s] =
                  CASE out.kind = "reject" -> SummarizeCatch(@, Error(out.message))
                    [] out.kind = "noresponse" -> SummarizeCatch(@, Error(NoResponseMessage))
                    [] out.kind = "text" ->
                         IF EmptyText(out.text)
                         THEN SummarizeCatch(@, Error(EmptyResponseMessage))
                         ELSE Respond([@ EXCEPT !.pc = "done"], JsonText(Trim(out.text)))]
    /\ UNCHANGED <<env, disk, ex, clientVars, pdfVars>>

(***************************************************************************)
(* Server specification: one extraction request and one text-transform     *)
(* request, handled concurrently                                           *)
(***************************************************************************)
InitClientVars ==
    /\ selectedFile = Undefined
    /\ extractedText = <<>>
    /\ isLoading = FALSE
    /\ error = ""
    /\ processedText = <<>>
    /\ isProcessingText = FALSE
    /\ processingMode = Undefined
    /\ extractFetches = <<>>
    /\ transformFetches = <<>>
    /\ processedSuperseded = FALSE
    /\ lastExtraction = Undefined
    /\ exportText = <<>>
    /\ pdfDoc = Undefined

InitServer ==
    /\ env \in Envs
    /\ disk = {}
    /\ ex = [r \in ExtractIds |-> NewExtract]
    /\ sm = [s \in SummarizeIds |-> NewSummarize]
    /\ InitClientVars

NextServer ==
    \/ ExtractReceive("e1")
    \/ ExtractParsed("e1")
    \/ ExtractRead("e1")
    \/ ExtractCleaned("e1")
    \/ ExtractModelReturned("e1")
    \/ ExtractUnlink("e1")
    \/ \E s \in SummarizeIds : SummarizeReceive(s)
    \/ \E s \in SummarizeIds : SummarizeModelReturned(s)

SpecServer == InitServer /\ [][NextServer]_vars

(***************************************************************************)
(* Two extraction requests handled concurrently, interleaved at the awaits *)
(* of the handler, in a process that has its credential                    *)
(***************************************************************************)
InitConcurrent ==
    /\ env = [GEMINI_API_KEY |-> Str("key-1"), NEXT_PUBLIC_GEMINI_API_KEY |-> Undefined]
    /\ disk = {}
    /\ ex = [r \in ExtractIds |-> NewExtract]
    /\ sm = [s \in SummarizeIds |-> NewSummarize]
    /\ InitClientVars

NextConcurrent ==
    \/ \E r \in ExtractIds : ExtractReceive(r)
    \/ \E r \in ExtractIds : ExtractParsed(r)
    \/ \E r \in ExtractIds : ExtractRead(r)
    \/ \E r \in ExtractIds : ExtractCleaned(r)
    \/ \E r \in ExtractIds : ExtractModelReturned(r)
    \/ \E r \in ExtractIds : ExtractUnlink(r)

SpecConcurrent == InitConcurrent /\ [][NextConcurrent]_vars

(***************************************************************************)
(* Client page: HomePage of app/page.tsx                                   *)
(***************************************************************************)
FileNames == {"f1"}

\* what the user can type into the transcription: nothing, blanks only,
\* plain text, text with a trailing blank
TypedTexts == {<<>>, <<" ">>, <<"a">>, <<"a", " ">>}

\* the text a 200 response of either endpoint can carry: text.trim() of a
\* non-empty model answer
ResponseTexts == {Trim(t) : t \in {<<" ">>, <<"a">>, <<"a", "a">>}}

ServerMessages == {"Server failure"}

\* how a fetch can settle: rejected by the network; a response that is not
\* ok, with the error of its payload ({} when the body is not JSON); an ok
\* response with its text
FetchOutcomes ==
    {[kind |-> "reject", message |-> "Failed to fetch"]}
    \cup {[kind |-> "notok", payloadError |-> e] :
             e \in {Undefined} \cup {Str(m) : m \in ServerMessages}}
    \cup {[kind |-> "ok", text |-> t] : t \in {Undefined} \cup {Str(x) : x \in ResponseTexts}}

\* the message of the Error a settled fetch makes the handler throw
FailureMessage(outcome, fallback) ==
    CASE outcome.kind = "reject" -> outcome.message
      [] outcome.kind = "notok" ->
            IF Falsy(outcome.payloadError) THEN fallback ELSE outcome.payloadError.v

\* sequence s without its element i
RemoveAt(s, i) == SubSeq(s, 1, i - 1) \o SubSeq(s, i + 1, Len(s))

\* lines 35-39
handleFileChange ==
    /\ \E file \in {Undefined} \cup {Str(f) : f \in FileNames} :
         selectedFile' = Coalesce(file, Undefined)
    /\ error' = ""
    /\ UNCHANGED <<extractedText, isLoading, processedText, isProcessingText,
                   processingMode, extractFetches, transformFetches,
                   processedSuperseded, lastExtraction>>

\* line 341: the user edits the transcription
setExtractedText ==
    /\ \E value \in TypedTexts : extractedText' = value
    /\ extractedText' # extractedText
    /\ UNCHANGED <<selectedFile, isLoading, error, processedText, isProcessingText,
                   processingMode, extractFetches, transformFetches,
                   processedSuperseded, lastExtraction>>

\* an Extract button that stays enabled while a request is outstanding
ExtractDisabledNoLoading == selectedFile = Undefined

\* line 273: disabled={isLoading || !selectedFile}
ExtractDisabled == isLoading \/ selectedFile = Undefined

\* lines 61-78: a click on Extract runs handleExtract up to its fetch
handleExtract ==
    /\ ~ExtractDisabled
    /\ Len(extractFetches) < MaxInFlight
    /\ IF selectedFile = Undefined
       THEN /\ error' = "Please select an image before extracting."
            /\ UNCHANGED <<isLoading, extractFetches>>
       ELSE /\ isLoading' = TRUE
            /\ error' = ""
            /\ extractFetches' = Append(extractFetches,
                    [file |-> selectedFile, shown |-> processedText # <<>>,
                     outcome |-> Undefined])
    /\ UNCHANGED <<selectedFile, extractedText, processedText, isProcessingText,
                   processingMode, transformFetches, processedSuperseded, lastExtraction>>

\* the fetch of line 75 settles
ExtractFetchSettles ==
    /\ \E i \in 1..Len(extractFetches), outcome \in FetchOutcomes :
         /\ extractFetches[i].outcome = Undefined
         /\ extractFetches' = [extractFetches EXCEPT ![i].outcome = outcome]
    /\ UNCHANGED <<selectedFile, extractedText, isLoading, error, processedText,
                   isProcessingText, processingMode, transformFetches,
                   processedSuperseded, lastExtraction>>

\* a handleExtract that replaces the transcription and keeps the transform
\* result
handleExtractResumeKeepsResult ==
    \E i \in 1..Len(extractFetches) :
        LET outcome == extractFetches[i].outcome
        IN  /\ outcome # Undefined
            /\ IF outcome.kind = "ok"
               THEN /\ extractedText' = Coalesce(outcome.text, Str(<<>>)).v
                    /\ UNCHANGED <<processedText, processedSuperseded, transformFetches,
                                   error>>
               ELSE /\ error' = FailureMessage(outcome, "Failed to extract text.")
                    /\ UNCHANGED <<extractedText, processedText, processedSuperseded,
                                   transformFetches>>
            /\ isLoading' = FALSE
            /\ extractFetches' = RemoveAt(extractFetches, i)
            /\ lastExtraction' = [shown |-> extractFetches[i].shown,
                                  ok |-> outcome.kind = "ok"]
            /\ UNCHANGED <<selectedFile, isProcessingText, processingMode>>

\* lines 80-93: handleExtract resumes with the settled fetch
handleExtractResume ==
    \E i \in 1..Len(extractFetches) :
        LET outcome == extractFetches[i].outcome
        IN  /\ outcome # Undefined
            /\ IF outcome.kind = "ok"
               THEN /\ extractedText' = Coalesce(outcome.text, Str(<<>>)).v
                    /\ processedText' = <<>>
                    /\ processedSuperseded' = FALSE
                    /\ transformFetches' =
                          [j \in 1..Len(transformFetches) |->
                              [transformFetches[j] EXCEPT !.superseded = TRUE]]
                    /\ UNCHANGED error
               ELSE /\ error' = FailureMessage(outcome, "Failed to extract text.")
                    /\ UNCHANGED <<extractedText, processedText, processedSuperseded,
                                   transformFetches>>
            /\ isLoading' = FALSE
            /\ extractFetches' = RemoveAt(extractFetches, i)
            /\ lastExtraction' = [shown |-> extractFetches[i].shown,
                                  ok |-> outcome.kind = "ok"]
            /\ UNCHANGED <<selectedFile, isProcessingText, processingMode>>

\* lines 350 and 358: disabled={isProcessingText || !extractedText}
ProcessDisabled == isProcessingText \/ EmptyText(extractedText)

\* line 113: the JSON body of a transform fetch
TransformBody(fetch) == [text |-> Str(fetch.text), mode |-> Str(fetch.mode)]

BlankTextMessage == "Extract text first or enter content to process."

\* a handleProcessText that tests the text as the buttons do, untrimmed
handleProcessTextNoTrim(mode) ==
    /\ ~(isProcessingText \/ EmptyText(extractedText))
    /\ Len(transformFetches) < MaxInFlight
    /\ IF EmptyText(extractedText)
       THEN /\ error' = BlankTextMessage
            /\ UNCHANGED <<isProcessingText, processingMode, transformFetches>>
       ELSE /\ isProcessingText' = TRUE
            /\ processingMode' = Str(mode)
            /\ error' = ""
            /\ transformFetches' = Append(transformFetches,
                    [text |-> extractedText, mode |-> mode,
                     superseded |-> FALSE, outcome |-> Undefined])
    /\ UNCHANGED <<selectedFile, extractedText, isLoading, processedText,
                   extractFetches, processedSuperseded, lastExtraction>>

\* lines 96-114: a click on Summarize or Rewrite runs handleProcessText up
\* to its fetch
handleProcessText(mode) ==
    /\ ~ProcessDisabled
    /\ Len(transformFetches) < MaxInFlight
    /\ IF EmptyText(Trim(extractedText))
       THEN /\ error' = BlankTextMessage
            /\ UNCHANGED <<isProcessingText, processingMode, transformFetches>>
       ELSE /\ isProcessingText' = TRUE
            /\ processingMode' = Str(mode)
            /\ error' = ""
            /\ transformFetches' = Append(transformFetches,
                    [text |-> extractedText, mode |-> mode,
                     superseded |-> FALSE, outcome |-> Undefined])
    /\ UNCHANGED <<selectedFile, extractedText, isLoading, processedText,
                   extractFetches, processedSuperseded, lastExtraction>>

\* the fetch of line 108 settles
TransformFetchSettles ==
    /\ \E i \in 1..Len(transformFetches), outcome \in FetchOutcomes :
         /\ transformFetches[i].outcome = Undefined
         /\ transformFetches' = [transformFetches EXCEPT ![i].outcome = outcome]
    /\ UNCHANGED <<selectedFile, extractedText, isLoading, error, processedText,
                   isProcessingText, processingMode, extractFetches,
                   processedSuperseded, lastExtraction>>

\* a handleProcessText whose flags are reset after the try block instead of
\* in a finally block, so that a failure leaves them set
handleProcessTextResumeNoFinally ==
    \E i \in 1..Len(transformFetches) :
        LET outcome == transformFetches[i].outcome
        IN  /\ outcome # Undefined
            /\ IF outcome.kind = "ok"
               THEN /\ processedText' = Coalesce(outcome.text, Str(<<>>)).v
                    /\ processedSuperseded' = transformFetches[i].superseded
                    /\ isProcessingText' = FALSE
                    /\ processingMode' = Undefined
                    /\ UNCHANGED error
               ELSE /\ error' = FailureMessage(outcome, "Failed to process text.")
                    /\ UNCHANGED <<processedText, processedSuperseded, isProcessingText,
                                   processingMode>>
            /\ transformFetches' = RemoveAt(transformFetches, i)
            /\ UNCHANGED <<selectedFile, extractedText, isLoading,
                           extractFetches, lastExtraction>>

\* lines 116-129: handleProcessText resumes with the settled fetch
handleProcessTextResume ==
    \E i \in 1..Len(transformFetches) :
        LET outcome == transformFetches[i].outcome
        IN  /\ outcome # Undefined
            /\ IF outcome.kind = "ok"
               THEN /\ processedText' = Coalesce(outcome.text, Str(<<>>)).v
                    /\ processedSuperseded' = transformFetches[i].superseded
                    /\ UNCHANGED error
               ELSE /\ error' = FailureMessage(outcome, "Failed to process text.")
                    /\ UNCHANGED <<processedText, processedSuperseded>>
            /\ isProcessingText' = FALSE
            /\ processingMode' = Undefined
            /\ transformFetches' = RemoveAt(transformFetches, i)
            /\ UNCHANGED <<selectedFile, extractedText, isLoading,
                           extractFetches, lastExtraction>>

InitClient ==
    /\ env = [GEMINI_API_KEY |-> Undefined, NEXT_PUBLIC_GEMINI_API_KEY |-> Undefined]
    /\ disk = {}
    /\ ex = [r \in ExtractIds |-> NewExtract]
    /\ sm = [s \in SummarizeIds |-> NewSummarize]
    /\ InitClientVars

NextClient ==
    \/ handleFileChange /\ UNCHANGED <<serverVars, pdfVars>>
    \/ setExtractedText /\ UNCHANGED <<serverVars, pdfVars>>
    \/ handleExtract /\ UNCHANGED <<serverVars, pdfVars>>
    \/ ExtractFetchSettles /\ UNCHANGED <<serverVars, pdfVars>>
    \/ handleExtractResume /\ UNCHANGED <<serverVars, pdfVars>>
    \/ handleProcessText("summarize") /\ UNCHANGED <<serverVars, pdfVars>>
    \/ handleProcessText("rewrite") /\ UNCHANGED <<serverVars, pdfVars>>
    \/ TransformFetchSettles /\ UNCHANGED <<serverVars, pdfVars>>
    \/ handleProcessTextResume /\ UNCHANGED <<serverVars, pdfVars>>

SpecClient == InitClient /\ [][NextClient]_vars

\* the continuation of a settled fetch is a queued job of the event loop:
\* it runs once the fetch has settled
SpecClientLive ==
    /\ SpecClient
    /\ WF_vars(handleExtractResume /\ UNCHANGED <<serverVars, pdfVars>>)
    /\ WF_vars(handleProcessTextResume /\ UNCHANGED <<serverVars, pdfVars>>)

(***************************************************************************)
(* Document export: handleDownloadPdf of app/page.tsx.  Lengths are in     *)
(* hundredths of a point.                                                  *)
(***************************************************************************)
\* jsPDF's a4 page is 595.28pt by 841.89pt
PageHeight == 84189

MarginTop == 9600

MarginBottom == 9600

ParagraphSpacing == 2000

\* 12 * lineHeightFactor, with lineHeightFactor = 1.6
LineHeight == 1920

ExportTexts == UNION {[1..n -> 0..MaxLines] : n \in 0..MaxSegments}

\* line 175: split on blank lines, trim, drop what is empty
RECURSIVE Paragraphs(_)
Paragraphs(segments) ==
    IF segments = <<>> THEN <<>>
    ELSE IF Head(segments) = 0 THEN Paragraphs(Tail(segments))
         ELSE <<Head(segments)>> \o Paragraphs(Tail(segments))

\* lines 177-197: the forEach from paragraph index on (index counts from 1)
RECURSIVE Paginate(_, _, _)
Paginate(paragraphs, index, doc) ==
    IF index > Len(paragraphs) THEN doc
    ELSE LET requiredHeight == paragraphs[index] * LineHeight
             overflow == doc.cursorY + requiredHeight > PageHeight - MarginBottom
             pages == IF overflow THEN doc.pages + 1 ELSE doc.pages
             cursorY == IF overflow THEN MarginTop ELSE doc.cursorY
         IN  Paginate(paragraphs, index + 1,
                 [pages |-> pages,
                  cursorY |-> cursorY + requiredHeight
                              + (IF index < Len(paragraphs) THEN ParagraphSpacing ELSE 0),
                  placed |-> Append(doc.placed,
                                    [page |-> pages, y |-> cursorY, lines |-> paragraphs[index]])])

\* lines 140-205: nothing for the empty text; otherwise one page with the
\* title, then the paragraphs
handleDownloadPdf ==
    /\ pdfDoc = Undefined
    /\ exportText # <<>>
    /\ pdfDoc' = Paginate(Paragraphs(exportText), 1,
                          [pages |-> 1, cursorY |-> MarginTop, placed |-> <<>>])
    /\ UNCHANGED <<serverVars, clientVars, exportText>>

\* the user exports another text
NewExport ==
    /\ pdfDoc # Undefined
    /\ pdfDoc' = Undefined
    /\ exportText' \in ExportTexts
    /\ UNCHANGED <<serverVars, clientVars>>

InitPdf ==
    /\ env = [GEMINI_API_KEY |-> Undefined, NEXT_PUBLIC_GEMINI_API_KEY |-> Undefined]
    /\ disk = {}
    /\ ex = [r \in ExtractIds |-> NewExtract]
    /\ sm = [s \in SummarizeIds |-> NewSummarize]
    /\ selectedFile = Undefined
    /\ extractedText = <<>>
    /\ isLoading = FALSE
    /\ error = ""
    /\ processedText = <<>>
    /\ isProcessingText = FALSE
    /\ processingMode = Undefined
    /\ extractFetches = <<>>
    /\ transformFetches = <<>>
    /\ processedSuperseded = FALSE
    /\ lastExtraction = Undefined
    /\ exportText \in ExportTexts
    /\ pdfDoc = Undefined

NextPdf ==
    \/ handleDownloadPdf
    \/ NewExport

SpecPdf == InitPdf /\ [][NextPdf]_vars

(***************************************************************************)
(* Properties of the request handlers                                      *)
(***************************************************************************)
ExtractDone(r) == ex[r].pc = "done"

SummarizeDone(s) == sm[s].pc = "done"

\* C1: once the extraction handler has finished a POST request, whatever its
\* outcome, none of the temporary files that multipart parsing wrote for
\* that request exists any more (read here for the requests whose unlink
\* call, if any, did not itself fail).
C1_TempFilesRemoved ==
    \A r \in ExtractIds :
        (ExtractDone(r) /\ ex[r].method = "POST" /\ "unlinkFailed" \notin ex[r].effects)
            => WrittenPaths(r, ex[r].files) \cap disk = {}

\* C2: on both endpoints a request whose method is not POST is answered with
\* exactly 405 and Allow: POST, and the handler has parsed nothing, read or
\* deleted no file and made no model call for it.
C2_NonPostRejected ==
    /\ \A r \in ExtractIds :
          (ex[r].method \notin {"", "POST"})
              => /\ ExtractDone(r)
                 /\ Len(ex[r].responses) = 1
                 /\ ex[r].responses[1].status = 405
                 /\ ex[r].responses[1].allow = "POST"
                 /\ ex[r].effects = {}
                 /\ WrittenPaths(r, ex[r].files) = {}
    /\ \A s \in SummarizeIds :
          (sm[s].method \notin {"", "POST"})
              => /\ SummarizeDone(s)
                 /\ Len(sm[s].responses) = 1
                 /\ sm[s].responses[1].status = 405
                 /\ sm[s].responses[1].allow = "POST"
                 /\ sm[s].effects = {}

C2_Witness ==
    /\ ExtractDone("e1") /\ ex["e1"].method = "GET"
    /\ SummarizeDone("s1") /\ sm["s1"].method = "PUT"
    /\ ex["e1"].responses[1].status = 405
    /\ sm["s1"].responses[1].status = 405

\* the inputs the text-transform endpoint accepts: text a string that is
\* non-empty after trimming, mode exactly summarize or rewrite
AcceptableTransform(text, mode) ==
    /\ text.t = "string"
    /\ \E i \in 1..Len(text.v) : text.v[i] # " "
    /\ mode \in {Str("summarize"), Str("rewrite")}

\* C3: for a POST to the text-transform endpoint the model is called only
\* for acceptable text and mode; for any other text or mode the response is
\* 400 and the model is never called.
C3_TransformValidation ==
    \A s \in SummarizeIds :
        sm[s].method = "POST" =>
            /\ "model" \in sm[s].effects => AcceptableTransform(sm[s].text, sm[s].mode)
            /\ ~AcceptableTransform(sm[s].text, sm[s].mode)
                  => /\ SummarizeDone(s)
                     /\ Len(sm[s].responses) = 1
                     /\ sm[s].responses[1].status = 400
                     /\ "model" \notin sm[s].effects

C3_Witness ==
    /\ SummarizeDone("s1")
    /\ sm["s1"].method = "POST"
    /\ sm["s1"].text = Str(<<"a">>)
    /\ sm["s1"].mode = Str("translate")
    /\ sm["s1"].responses[1].status = 400

LanguageHints == {"auto", "en", "hi", "mr", "es"}

\* the prompt the claim expects for a language field: the entry of the hint
\* when the value is one of the five hints, the auto entry otherwise
ExpectedPrompt(languageField) ==
    LET value == IF languageField # Undefined /\ languageField.t = "array"
                 THEN (IF Len(languageField.v) > 0 THEN languageField.v[1] ELSE Undefined)
                 ELSE languageField
    IN  IF value # Undefined /\ value.t = "string" /\ value.v \in LanguageHints
        THEN Str(LANGUAGE_PROMPTS[value.v])
        ELSE Str(LANGUAGE_PROMPTS.auto)

\* C4: the prompt sent to the model is the entry of the request's language
\* when that is one of the five hints, and the auto entry for every other
\* value: absent, empty, differently cased, or an inherited property name.
C4_PromptResolved ==
    \A r \in ExtractIds :
        "model" \in ex[r].effects => ex[r].prompt = ExpectedPrompt(ex[r].languageField)

\* C5: on both endpoints a POST request ends with exactly one response, and
\* every failure raised after the method check is answered with status 500
\* and a JSON body whose error is the failure's message.
C5_FailuresAnswered ==
    /\ \A r \in ExtractIds :
          /\ Len(ex[r].responses) <= 1
          /\ ExtractDone(r) => Len(ex[r].responses) = 1
          /\ ex[r].failure # Undefined
                => /\ Len(ex[r].responses) = 1
                   /\ ex[r].responses[1].status = 500
                   /\ ex[r].responses[1].body = [error |-> ex[r].failure.message.v]
                   /\ ex[r].pc \in {"cleanup", "done"}
    /\ \A s \in SummarizeIds :
          /\ Len(sm[s].responses) <= 1
          /\ SummarizeDone(s) => Len(sm[s].responses) = 1
          /\ sm[s].failure # Undefined
                => /\ Len(sm[s].responses) = 1
                   /\ sm[s].responses[1].status = 500
                   /\ sm[s].responses[1].body = [error |-> sm[s].failure.message.v]
                   /\ SummarizeDone(s)

C5_Witness ==
    /\ ExtractDone("e1") /\ ex["e1"].failure = Error("fetch failed")
    /\ ex["e1"].responses = <<JsonError(500, "fetch failed")>>
    /\ SummarizeDone("s1") /\ sm["s1"].failure = Error(EmptyResponseMessage)
    /\ sm["s1"].responses = <<JsonError(500, EmptyResponseMessage)>>

\* some variable supplies a non-empty credential
SuppliesCredential(e) ==
    \E name \in DOMAIN e : e[name] # Undefined /\ e[name].v # ""

\* C6: with no credential available a validated request on either endpoint
\* gets a 500 with the missing-key message and no model call; whenever the
\* primary or the secondary variable supplies a non-empty credential no
\* request fails with that message.
C6_CredentialFallback ==
    /\ \A r \in ExtractIds :
          /\ (SuppliesCredential(env) /\ ex[r].failure # Undefined)
                => ex[r].failure.message.v # MissingKeyMessage
          /\ (~SuppliesCredential(env) /\ ex[r].language # Undefined)
                => /\ ex[r].responses = <<JsonError(500, MissingKeyMessage)>>
                   /\ "model" \notin ex[r].effects
    /\ \A s \in SummarizeIds :
          /\ (SuppliesCredential(env) /\ sm[s].failure # Undefined)
                => sm[s].failure.message.v # MissingKeyMessage
          /\ (~SuppliesCredential(env) /\ sm[s].method = "POST"
                  /\ AcceptableTransform(sm[s].text, sm[s].mode))
                => /\ sm[s].responses = <<JsonError(500, MissingKeyMessage)>>
                   /\ "model" \notin sm[s].effects

\* the temporary files multipart parsing stored for request r
OwnFiles(r) == WrittenPaths(r, ex[r].files)

\* the temporary file request r reads and unlinks
ChosenPath(r) == PathOf(r, ex[r].uploadedFile.v)

\* C12: with extraction requests interleaved in any order, the file a
\* request reads and deletes is one of its own upload and of no other
\* request's; a file disappears only in the unlink step of the request that
\* owns it; a step of one request leaves the other requests' records and
\* files as they were, so that a request finds its own file in place until
\* it unlinks it itself; and the environment is never written.
C12_RequestsIsolated ==
    /\ [](\A r \in ExtractIds :
            /\ ex[r].uploadedFile # Undefined
                  => /\ ChosenPath(r) \in OwnFiles(r)
                     /\ \A q \in ExtractIds \ {r} : ChosenPath(r) \notin OwnFiles(q)
            /\ ex[r].pc \in {"reading", "cleaning", "calling", "cleanup"}
                  => OwnFiles(r) \subseteq disk)
    /\ [][/\ \A p \in disk \ disk' :
                 \E r \in ExtractIds :
                     /\ ex[r].pc = "cleanup"
                     /\ ex'[r].pc = "done"
                     /\ p = ChosenPath(r)
          /\ \A q \in ExtractIds :
                 ex'[q] = ex[q] => (disk' \cap OwnFiles(q) = disk \cap OwnFiles(q))
          /\ Cardinality({q \in ExtractIds : ex'[q] # ex[q]}) <= 1
          /\ env' = env]_vars

\* the first request has answered and removed its file while the second,
\* which uploaded a file of the same name, waits for the model with its own
\* file still in place
C12_Witness ==
    /\ ex["e1"].pc = "done"
    /\ "unlink" \in ex["e1"].effects
    /\ ex["e1"].files = <<[field |-> "file", items |-> <<"t1">>]>>
    /\ ex["e2"].files = <<[field |-> "file", items |-> <<"t1">>]>>
    /\ ex["e2"].pc = "calling"
    /\ disk = {PathOf("e2", "t1")}

(***************************************************************************)
(* Properties of the client page                                           *)
(***************************************************************************)
\* C7: at most one extraction fetch and at most one transform fetch are
\* outstanding at any time, and while one is outstanding the control that
\* starts the next one of its kind is disabled.
C7_OneInFlight ==
    /\ Len(extractFetches) <= 1
    /\ Len(transformFetches) <= 1
    /\ Len(extractFetches) = 1 => ExtractDisabled
    /\ Len(transformFetches) = 1 => ProcessDisabled

C7_Witness ==
    /\ Len(extractFetches) = 1
    /\ Len(transformFetches) = 1
    /\ selectedFile # Undefined
    /\ ~EmptyText(extractedText)

\* the step in which handleExtract finishes: its finally block clears isLoading
ExtractCompletes == isLoading /\ ~isLoading'

\* C8 as stated: when an extraction that was started while a transform
\* result was shown completes, successfully or not, the transform result is
\* empty, and on success the transcription is the returned text.
C8_ClearedOnCompletion ==
    [][(ExtractCompletes /\ extractFetches[1].shown)
          => /\ processedText' = <<>>
             /\ extractFetches[1].outcome.kind = "ok"
                   => extractedText' = Coalesce(extractFetches[1].outcome.text, Str(<<>>)).v]_vars

\* C8 amended: when an extraction completes successfully the transform
\* result is empty and the transcription is the returned text; when it
\* fails the transform result and the transcription are left as they were.
C8_ClearedOnSuccess ==
    [][ExtractCompletes
          => IF extractFetches[1].outcome.kind = "ok"
             THEN /\ processedText' = <<>>
                  /\ extractedText' = Coalesce(extractFetches[1].outcome.text, Str(<<>>)).v
             ELSE /\ processedText' = processedText
                  /\ extractedText' = extractedText]_vars

\* an extraction started while a transform result was shown has completed
\* successfully: the result is gone and the transcription is the new text
C8_Witness ==
    /\ lastExtraction = [shown |-> TRUE, ok |-> TRUE]
    /\ ~isLoading
    /\ processedText = <<>>
    /\ extractedText = <<"a", "a">>

\* C9: a transform result that is shown was never derived from a
\* transcription older than the most recent successful extraction.
C9_ResultNotStale ==
    ~EmptyText(processedText) => ~processedSuperseded

\* the step in which the handler of a failed extraction fetch finishes
ExtractFailureHandled ==
    /\ Len(extractFetches) = 1
    /\ extractFetches' = <<>>
    /\ extractFetches[1].outcome # Undefined
    /\ extractFetches[1].outcome.kind # "ok"

\* the step in which the handler of a failed transform fetch finishes
TransformFailureHandled ==
    /\ Len(transformFetches) = 1
    /\ transformFetches' = <<>>
    /\ transformFetches[1].outcome # Undefined
    /\ transformFetches[1].outcome.kind # "ok"

ExtractSettled ==
    \E i \in 1..Len(extractFetches) : extractFetches[i].outcome # Undefined

TransformSettled ==
    \E i \in 1..Len(transformFetches) : transformFetches[i].outcome # Undefined

\* C11: a failed extraction or transform request leaves a non-empty error
\* message on screen and its in-flight flag cleared, so that its button is
\* disabled only for want of a file or of text; and once the response or the
\* failure of a started request has arrived its in-flight flag is eventually
\* cleared.
C11_FailureShown ==
    /\ [][/\ (ExtractFailureHandled
                 => (/\ error' # ""
                     /\ ~isLoading'
                     /\ ExtractDisabled' <=> (selectedFile' = Undefined)))
           /\ (TransformFailureHandled
                 => (/\ error' # ""
                     /\ ~isProcessingText'
                     /\ processingMode' = Undefined
                     /\ ProcessDisabled' <=> EmptyText(extractedText')))]_vars
    /\ ExtractSettled ~> ~isLoading
    /\ TransformSettled ~> ~isProcessingText

\* an extraction has failed and, after it, a transform: its message is shown
\* and both buttons can be used again
C11_Witness ==
    /\ lastExtraction # Undefined
    /\ ~lastExtraction.ok
    /\ error = "Failed to process text."
    /\ ~isLoading
    /\ ~isProcessingText
    /\ ~ExtractDisabled
    /\ ~ProcessDisabled

\* a text with nothing but white space in it
Blank(text) == \A i \in 1..Len(text) : text[i] = " "

\* C13: every transform request the client has sent carries a text that is
\* not blank and the mode summarize or rewrite, so the endpoint's validation
\* does not reject it; a request is only ever sent for the text on screen
\* when that text is not blank, and the step that puts up the blank-text
\* message sends nothing.
C13_ClientRequestsValid ==
    /\ [](\A i \in 1..Len(transformFetches) :
            /\ ~Blank(transformFetches[i].text)
            /\ transformFetches[i].mode \in {"summarize", "rewrite"}
            /\ SummarizeRejection(TransformBody(transformFetches[i])) = Undefined)
    /\ [][/\ (Len(transformFetches') > Len(transformFetches)
                 => (/\ ~Blank(extractedText)
                     /\ transformFetches'[Len(transformFetches')].text = extractedText))
           /\ ((error' = BlankTextMessage /\ error # BlankTextMessage)
                 => (/\ Blank(extractedText)
                     /\ transformFetches' = transformFetches))]_vars

\* Summarize or Rewrite was clicked on a transcription of blanks: the
\* message is up and nothing was sent
C13_Witness ==
    /\ error = BlankTextMessage
    /\ extractedText = <<" ">>
    /\ transformFetches = <<>>
    /\ ~isProcessingText

(***************************************************************************)
(* Properties of the document export                                       *)
(***************************************************************************)
\* C10: a text of exactly two non-empty paragraphs whose lines together are
\* higher than the content height of a page is exported as a document of
\* exactly two pages, however the lines are split between the paragraphs.
C10_TwoPages ==
    (/\ pdfDoc # Undefined
     /\ Len(exportText) = 2
     /\ exportText[1] > 0
     /\ exportText[2] > 0
     /\ (exportText[1] + exportText[2]) * LineHeight > PageHeight - MarginTop - MarginBottom)
        => pdfDoc.pages = 2

====
